---- MODULE Spec2Model ----
(***************************************************************************)
(* callisto-core, callisto_core/delivery/models.py: the Report record with *)
(* its two encryption paths (user path, escrow path), the migrate-on-read  *)
(* of legacy list-shaped records, and the MatchReport submissions with     *)
(* trial decryption and withdrawal.                                        *)
(*                                                                         *)
(* One request thread runs an operation of models.py step by step (pc);    *)
(* every step is one stretch of code between two database writes.  The     *)
(* database row of the Report (db) is distinct from the Python instance    *)
(* the operation works on (mem).  A concurrent reader and concurrent       *)
(* get_match calls may run between any two steps.                          *)
(***************************************************************************)
EXTENDS Naturals, Sequences, FiniteSets, TLC

\* ---------------------------------------------------------------- bounds
\* Fresh random salts get_random_string() hands out in one behaviour.
MaxSalt == 2
\* MatchReport rows the table may hold.
MaxMatch == 2

\* ------------------------------------------------------------ input sets
Passphrases == {"k1", "k2"}
Identifiers == {"i1", "i2"}
\* The Report this model follows, and another Report that owns submissions too.
ThisReport  == "r1"
Reports     == {"r1", "r2"}

\* ------------------------------------------------------- Python values
\* Every value is a record with a tag t, so that any two values compare.
None       == [t |-> "None"]
EmptyBytes == [t |-> "bytes", empty |-> TRUE]
Dict(n)    == [t |-> "dict", n |-> n, from_list |-> FALSE]
List(n)    == [t |-> "list", n |-> n]
\* A JSON value that is neither mapping nor list: a number, a quoted string.
Scalar(n)  == [t |-> "scalar", n |-> n]
\* A str is either free text or the text json.dumps wrote for a value.
RawText(n)  == [t |-> "str", json |-> FALSE, body |-> [t |-> "raw", n |-> n]]
JsonText(v) == [t |-> "str", json |-> TRUE, body |-> v]

\* record_data: dict, the payloads encrypt_record is called with.
RecordData == {Dict("A"), Dict("B")}

\* report_text: the MatchReportContent as a string of json.
MatchTexts == {JsonText(Dict("match"))}

\* Python truthiness of a nullable field (None, '' and b'' are falsy).
Truthy(v) == v # None /\ v # EmptyBytes

\* json.dumps: the JSON text of a value.
json_dumps(v) == JsonText(v)

\* json.loads: the value a JSON text denotes; free text is no JSON document.
json_loads(s) ==
    IF s.json
    THEN [exc |-> "none", val |-> s.body]
    ELSE [exc |-> "JSONDecodeError", val |-> None]

\* utils.RecordDataUtil.transform_if_old_format: a legacy list becomes the
\* mapping built from it; a mapping is returned as it is.
transform_if_old_format(data) ==
    IF data.t = "list" THEN [t |-> "dict", n |-> data.n, from_list |-> TRUE] ELSE data

\* ------------------------------------------------------ hashers (keys)
\* The hashers a deployment may have as its default, in upgrade order.
Hashers == << [alg |-> "pbkdf2_sha256", iter |-> 1],
              [alg |-> "argon2", iter |-> 2] >>
\* The hasher of records written before encode_prefix existed
\* (PBKDF2 with settings.ORIGINAL_KEY_ITERATIONS).
LegacyHasher == [alg |-> "pbkdf2_sha256", iter |-> 0]
LegacySalt   == [t |-> "salt", v |-> 0]
Salt(n)      == [t |-> "salt", v |-> n]

\* The stretched key: determined by algorithm, iterations, salt and secret.
Stretch(alg, iter, salt, secret) ==
    [t |-> "key", alg |-> alg, iter |-> iter, salt |-> salt, secret |-> secret]

\* hasher.encode(secret, salt): "<algorithm>$<iterations>$<salt>$<hash>".
hasher_encode(hasher, secret, salt) ==
    [alg |-> hasher.alg, iter |-> hasher.iter, salt |-> salt,
     hash |-> Stretch(hasher.alg, hasher.iter, salt, secret)]

\* hasher.split_encoded(encoded): ("<algorithm>$<iterations>$<salt>$", key).
split_encoded(encoded) ==
    [prefix |-> [t |-> "prefix", alg |-> encoded.alg, iter |-> encoded.iter,
                 salt |-> encoded.salt],
     key |-> encoded.hash]

\* hashers.make_key(encode_prefix, secret, salt): the key re-derived from the
\* stored parameters; the standalone salt is the fallback of legacy rows.
make_key(encode_prefix, secret, salt) ==
    IF Truthy(encode_prefix)
    THEN split_encoded(hasher_encode(
             [alg |-> encode_prefix.alg, iter |-> encode_prefix.iter],
             secret, encode_prefix.salt))
    ELSE split_encoded(hasher_encode(LegacyHasher, secret, salt))

\* ----------------------------------------------------- security (cipher)
\* security.encrypt_text(key, text): authenticated symmetric encryption.
encrypt_text(key, text) == [t |-> "secretbox", key |-> key, text |-> text]

\* security.decrypt_text(key, ciphertext): the text, or CryptoError when the
\* bytes are no box sealed under this key.
decrypt_text(key, ciphertext) ==
    IF ciphertext.t = "secretbox" /\ ciphertext.key = key
    THEN [exc |-> "none", val |-> ciphertext.text]
    ELSE [exc |-> "CryptoError", val |-> None]

\* security.pepper(ciphertext): a second box under the server-side pepper.
pepper(ciphertext) == [t |-> "peppered", inner |-> ciphertext]

\* security.unpepper(peppered): the inner ciphertext, or CryptoError when the
\* bytes are no box sealed under the pepper.
unpepper(peppered) ==
    IF peppered.t = "peppered"
    THEN [exc |-> "none", val |-> peppered.inner]
    ELSE [exc |-> "CryptoError", val |-> None]

\* Stored bytes that are no valid box at all (a corrupted column).
Garbage == [t |-> "garbage"]

\* ------------------------------------------------- model_helpers (escrow)
\* model_helpers.filter_record_data: the record without its skip_eval fields.
filter_record_data(data) == [t |-> "filtered", of |-> data]
\* model_helpers.gpg_encrypt_data: encryption to the organisation's public key.
gpg_encrypt_data(data) == [t |-> "gpg", of |-> data]
\* Where the escrow path may raise: nowhere, in the filter, in the asymmetric
\* encryption (invalid public key), or in RecordHistorical.objects.create.
EscrowFailures == {"none", "filter", "gpg", "create"}

\* Where the user path may raise: nowhere, in the key derivation of
\* encryption_setup (hasher.encode, line 99), in its self.save() (line 101),
\* or in the serialisation and encryption of line 136.
UserFailures == {"none", "setup", "save", "encrypt"}

\* ------------------------------------------------------------------ state
VARIABLES
    db,            \* the Report's row in the database
    mem,           \* the Report instance the request thread works on
    hist,          \* the RecordHistorical rows of the Report, oldest first
    mrs,           \* the MatchReport table: row id -> row, or None
    defaultHasher, \* settings: index in Hashers of the default hasher
    nsalt,         \* salts get_random_string() has handed out
    pc,            \* where the request thread is
    op,            \* the operation in progress: arguments and locals
    last,          \* the last finished operation of the thread and its outcome
    lastEnc,       \* the last finished encrypt_record: payload and passphrase
    submitted,     \* per MatchReport row: what it was last encrypted from
    matchRes,      \* the last get_match call on the table as it is, and its outcome
    obs            \* what the concurrent reader read of the database as it is

vars == <<db, mem, hist, mrs, defaultHasher, nsalt, pc, op, last, lastEnc,
          submitted, matchRes, obs>>

MatchIds == 1..MaxMatch

\* A Report that was never encrypted.
FreshReport ==
    [encode_prefix |-> None, salt |-> None, encrypted |-> EmptyBytes,
     encrypted_eval |-> EmptyBytes, match_found |-> FALSE]

\* What the plaintext of a row written by an earlier release may be: free
\* text of a pre-structured record, free text that happens to read as a JSON
\* number, or the JSON of an ordered list.
LegacyTexts == {RawText("old"), JsonText(Scalar("42")), json_dumps(List("L"))}

\* The passphrase of the Report written by an earlier release.
LegacyPassphrase == "k1"

\* A Report written by an earlier release: standalone salt, no encode_prefix.
LegacyReport(passphrase, text) ==
    [encode_prefix |-> None, salt |-> LegacySalt,
     encrypted |-> encrypt_text(make_key(None, passphrase, LegacySalt).key, text),
     encrypted_eval |-> EmptyBytes, match_found |-> FALSE]

Init ==
    /\ db \in {FreshReport} \cup {LegacyReport(LegacyPassphrase, x) : x \in LegacyTexts}
    /\ mem = db
    /\ hist = <<>>
    /\ mrs = [m \in MatchIds |-> None]
    /\ defaultHasher = 1
    /\ nsalt = 0
    /\ pc = "idle"
    /\ op = None
    /\ last = None
    /\ lastEnc = None
    /\ submitted = [m \in MatchIds |-> None]
    /\ matchRes = None
    /\ obs = None

\* Outcomes of a call: a returned value, or a raised exception.
Return(v) == [kind |-> "return", val |-> v, exc |-> "none"]
Raise(e)  == [kind |-> "raise", val |-> None, exc |-> e]

\* hashers.get_hasher(): the deployment's default hasher.
get_hasher == Hashers[defaultHasher]
\* django.utils.crypto.get_random_string(): a salt never handed out before.
get_random_string == Salt(nsalt + 1)

\* ----------------------------------------------------- Report, user path
\* Faulty variant: a record that already has an encode_prefix keeps its salt.
encryption_setup_keeps_salt(self, passphrase) ==
    LET cleared == IF Truthy(self.salt) THEN [self EXCEPT !.salt = None] ELSE self
        salt    == IF Truthy(self.encode_prefix)
                   THEN self.encode_prefix.salt
                   ELSE get_random_string
        parts   == split_encoded(hasher_encode(get_hasher, passphrase, salt))
    IN  [self |-> [cleared EXCEPT !.encode_prefix = parts.prefix],
         key  |-> parts.key]

\* Report.encryption_setup: drops the legacy salt, derives a key under the
\* default hasher and a fresh salt, stores the new encode_prefix.  The caller
\* writes self to the database (self.save()) and advances nsalt.
encryption_setup(self, passphrase) ==
    LET cleared == IF Truthy(self.salt) THEN [self EXCEPT !.salt = None] ELSE self
        parts   == split_encoded(
                       hasher_encode(get_hasher, passphrase, get_random_string))
    IN  [self |-> [cleared EXCEPT !.encode_prefix = parts.prefix],
         key  |-> parts.key]

\* Faulty variant: str(record_data) is encrypted instead of its JSON.
store_for_user_decryption_str(self, record_data, key) ==
    [self EXCEPT !.encrypted = encrypt_text(key, RawText(record_data.n))]

\* Faulty variant: the ciphertext is computed but not assigned to the instance.
store_for_user_decryption_unset(self, record_data, key) == self

\* Report._store_for_user_decryption, after its encryption_setup: the
\* ciphertext of the JSON of record_data under the key just derived.
store_for_user_decryption(self, record_data, key) ==
    [self EXCEPT !.encrypted = encrypt_text(key, json_dumps(record_data))]

\* Faulty variant: a try/except around the user path, the escrow path runs anyway.
encrypt_record_flow_guarded(ufail) == [escrow |-> TRUE, exc |-> "none"]

\* Report.encrypt_record, lines 64-66, a sequence of calls without a try:
\* when _store_for_user_decryption raised (at ufail), the exception leaves
\* encrypt_record and line 65 is not reached; otherwise the escrow path runs.
encrypt_record_flow(ufail) ==
    [escrow |-> ufail = "none",
     exc    |-> IF ufail = "none" THEN "none" ELSE "Exception"]

\* Faulty variant: no except clause, what the escrow path raises leaves the method.
store_for_callisto_decryption_raises(self, history, record_data, fail) ==
    LET encrypted_answers == gpg_encrypt_data(filter_record_data(record_data))
    IN  CASE fail \in {"filter", "gpg"} ->
                [self |-> self, hist |-> history, exc |-> "Exception"]
          [] fail = "create" ->
                [self |-> [self EXCEPT !.encrypted_eval = encrypted_answers],
                 hist |-> history, exc |-> "Exception"]
          [] OTHER ->
                [self |-> [self EXCEPT !.encrypted_eval = encrypted_answers],
                 hist |-> Append(history, encrypted_answers), exc |-> "none"]

\* Faulty variant: the snapshot replaces the history instead of joining it.
store_for_callisto_decryption_replaces(self, history, record_data, fail) ==
    LET encrypted_answers == gpg_encrypt_data(filter_record_data(record_data))
    IN  CASE fail \in {"filter", "gpg"} ->
                [self |-> self, hist |-> history, exc |-> "none"]
          [] fail = "create" ->
                [self |-> [self EXCEPT !.encrypted_eval = encrypted_answers],
                 hist |-> history, exc |-> "none"]
          [] OTHER ->
                [self |-> [self EXCEPT !.encrypted_eval = encrypted_answers],
                 hist |-> <<encrypted_answers>>, exc |-> "none"]

\* Report._store_for_callisto_decryption with the escrow path raising at
\* `fail`: the statements before the raise have run, the except clause
\* swallows whatever was raised.  Yields the instance, the history table and
\* the exception that leaves the method (none).
store_for_callisto_decryption(self, history, record_data, fail) ==
    LET encrypted_answers == gpg_encrypt_data(filter_record_data(record_data))
    IN  CASE fail \in {"filter", "gpg"} ->
                [self |-> self, hist |-> history, exc |-> "none"]
          [] fail = "create" ->
                [self |-> [self EXCEPT !.encrypted_eval = encrypted_answers],
                 hist |-> history, exc |-> "none"]
          [] OTHER ->
                [self |-> [self EXCEPT !.encrypted_eval = encrypted_answers],
                 hist |-> Append(history, encrypted_answers), exc |-> "none"]

\* Faulty variant: the transformed list is returned without being re-encrypted.
return_or_transform_unsaved(data) ==
    [val |-> transform_if_old_format(data), migrate |-> FALSE]

\* Report._return_or_transform: a list is transformed and re-encrypted
\* (migrate), anything else is returned as it is.
return_or_transform(data) ==
    IF data.t = "list"
    THEN [val |-> transform_if_old_format(data), migrate |-> TRUE]
    ELSE [val |-> data, migrate |-> FALSE]

\* Faulty variant: encryption_setup runs on every call, initialised record or not.
decrypt_key_always_setup(self, passphrase) ==
    [self |-> encryption_setup(self, passphrase).self,
     key |-> encryption_setup(self, passphrase).key,
     setup |-> TRUE]

\* Faulty variant: the key is derived under the default hasher, with the stored salt.
decrypt_key_default_hasher(self, passphrase) ==
    IF ~(Truthy(self.encode_prefix) \/ Truthy(self.salt))
    THEN [self |-> encryption_setup(self, passphrase).self,
          key |-> encryption_setup(self, passphrase).key,
          setup |-> TRUE]
    ELSE [self |-> self,
          key |-> hasher_encode(get_hasher, passphrase,
                                IF Truthy(self.encode_prefix)
                                THEN self.encode_prefix.salt ELSE self.salt).hash,
          setup |-> FALSE]

\* Report.decrypt_record, lines 73-77: the key of the stored parameters, or a
\* fresh setup when the record has neither encode_prefix nor salt.
decrypt_key(self, passphrase) ==
    IF ~(Truthy(self.encode_prefix) \/ Truthy(self.salt))
    THEN [self |-> encryption_setup(self, passphrase).self,
          key |-> encryption_setup(self, passphrase).key,
          setup |-> TRUE]
    ELSE [self |-> self,
          key |-> make_key(self.encode_prefix, passphrase, self.salt).key,
          setup |-> FALSE]

\* Report.decrypt_record, lines 79-86, on the decrypted text: the parsed data
\* through _return_or_transform, or the text itself when it is no JSON.
decrypt_parse(record_data_string) ==
    LET decrypted_data == json_loads(record_data_string)
    IN  IF decrypted_data.exc = "JSONDecodeError"
        THEN [val |-> record_data_string, migrate |-> FALSE]
        ELSE return_or_transform(decrypted_data.val)

\* Faulty variant: a CryptoError of decrypt_text is swallowed, None is returned.
decrypt_record_swallow(self, passphrase) ==
    LET k    == decrypt_key(self, passphrase)
        text == decrypt_text(k.key, k.self.encrypted)
    IN  IF text.exc # "none"
        THEN [self |-> k.self, setup |-> k.setup, out |-> Return(None),
              migrate |-> FALSE]
        ELSE [self |-> k.self, setup |-> k.setup,
              out |-> Return(decrypt_parse(text.val).val),
              migrate |-> decrypt_parse(text.val).migrate]

\* Report.decrypt_record up to its return or to the encrypt_record of a
\* migration: the instance after the key step, whether that step saved, and
\* the outcome (exception of decrypt_text, or the value to return).
decrypt_record(self, passphrase) ==
    LET k    == decrypt_key(self, passphrase)
        text == decrypt_text(k.key, k.self.encrypted)
    IN  IF text.exc # "none"
        THEN [self |-> k.self, setup |-> k.setup, out |-> Raise(text.exc),
              migrate |-> FALSE]
        ELSE [self |-> k.self, setup |-> k.setup,
              out |-> Return(decrypt_parse(text.val).val),
              migrate |-> decrypt_parse(text.val).migrate]

\* ------------------------------------------------------------ MatchReport
\* MatchReport(report=r): a new, unsaved submission of Report r.
NewMatchReport(r) ==
    [report |-> r, encrypted |-> EmptyBytes, encode_prefix |-> None, salt |-> None]

\* Faulty variant: the legacy salt of the row is kept beside the new encode_prefix.
encrypt_match_report_keeps_salt(self, report_text, identifier) ==
    LET parts == split_encoded(
                     hasher_encode(get_hasher, identifier, get_random_string))
    IN  [self EXCEPT
            !.encode_prefix = parts.prefix,
            !.encrypted = pepper(encrypt_text(parts.key, report_text))]

\* MatchReport.encrypt_match_report: drops the legacy salt, derives a key
\* from the identifier under the default hasher and a fresh salt, stores the
\* encode_prefix and the peppered ciphertext.  The caller saves the row.
encrypt_match_report(self, report_text, identifier) ==
    LET cleared == IF Truthy(self.salt) THEN [self EXCEPT !.salt = None] ELSE self
        parts   == split_encoded(
                       hasher_encode(get_hasher, identifier, get_random_string))
    IN  [cleared EXCEPT
            !.encode_prefix = parts.prefix,
            !.encrypted = pepper(encrypt_text(parts.key, report_text))]

\* Faulty variant: the pepper is not removed before the decryption.
get_match_peppered(self, identifier) ==
    LET stretched_identifier ==
            make_key(self.encode_prefix, identifier, self.salt).key
        decrypted == decrypt_text(stretched_identifier, self.encrypted)
    IN  CASE decrypted.exc = "CryptoError" -> Return(None)
          [] decrypted.exc = "none"        -> Return(decrypted.val)
          [] OTHER                         -> Raise(decrypted.exc)

\* Faulty variant: no except clause, a CryptoError leaves the method.
get_match_uncaught(self, identifier) ==
    LET stretched_identifier ==
            make_key(self.encode_prefix, identifier, self.salt).key
        unpeppered == unpepper(self.encrypted)
        decrypted  == IF unpeppered.exc # "none"
                      THEN unpeppered
                      ELSE decrypt_text(stretched_identifier, unpeppered.val)
    IN  IF decrypted.exc = "none" THEN Return(decrypted.val) ELSE Raise(decrypted.exc)

\* MatchReport.get_match: the key of the row's own parameters and the
\* candidate identifier, the pepper removed, the decryption tried; a
\* CryptoError of either is caught and None is returned.
get_match(self, identifier) ==
    LET stretched_identifier ==
            make_key(self.encode_prefix, identifier, self.salt).key
        unpeppered == unpepper(self.encrypted)
        decrypted  == IF unpeppered.exc # "none"
                      THEN unpeppered
                      ELSE decrypt_text(stretched_identifier, unpeppered.val)
    IN  CASE decrypted.exc = "CryptoError" -> Return(None)
          [] decrypted.exc = "none"        -> Return(decrypted.val)
          [] OTHER                         -> Raise(decrypted.exc)

\* MatchReport.match_found: the flag of the Report row, read afresh
\* (self.report.refresh_from_db()).
match_found(report_row) == report_row.match_found

\* Faulty variant: only the first submission is deleted (.first().delete()).
withdraw_delete_first(table) ==
    [m \in MatchIds |->
        IF /\ table[m] # None /\ table[m].report = ThisReport
           /\ \A n \in MatchIds :
                 (table[n] # None /\ table[n].report = ThisReport) => m <= n
        THEN None ELSE table[m]]

\* Report.withdraw_from_matching, line 90: self.matchreport_set.all().delete()
\* on the MatchReport table (one DELETE, rows of other Reports stay).
withdraw_delete_rows(table) ==
    [m \in MatchIds |->
        IF table[m] # None /\ table[m].report = ThisReport THEN None ELSE table[m]]

\* Report.withdraw_from_matching, line 91: self.match_found = False.
withdraw_clear_flag(self) == [self EXCEPT !.match_found = FALSE]

\* The ids of the submissions of this Report in a MatchReport table.
matchreport_set(table) ==
    {m \in MatchIds : table[m] # None /\ table[m].report = ThisReport}

\* ---------------------------------------------------------------- actions
\* The locals of an encrypt_record in progress.  outer names the call the
\* thread's caller made (decrypt_record when this is a migration), ret what
\* that call returns once encrypt_record is through.
EncFrame(outer, data, passphrase, key, ret, before) ==
    [name |-> "encrypt_record", outer |-> outer, data |-> data,
     pass |-> passphrase, key |-> key, ret |-> ret, fail |-> "none",
     ufail |-> "none", escrow |-> FALSE,
     enc |-> lastEnc, before |-> before, saves |-> 1]

\* The outcome of the call in frame f, with the escrow path having failed at
\* fail, the user path at ufail, after that many saves.
Outcome(f, out, fail, ufail, escrow, saves) ==
    [name |-> f.outer, pass |-> f.pass, data |-> f.data, out |-> out,
     fail |-> fail, ufail |-> ufail, escrow |-> escrow,
     migrated |-> f.outer = "decrypt_record",
     enc |-> f.enc, before |-> f.before, saves |-> saves]

\* _store_for_user_decryption, line 135: encryption_setup on the instance,
\* raising at ufail or running through its self.save() (line 101).  What was
\* assigned before a raise stays on the instance; the row is written only by
\* the save.
user_path_setup(self, outer, record_data, passphrase, ret, ufail) ==
    LET s == encryption_setup(self, passphrase)
    IN  /\ mem' = IF ufail = "setup"
                  THEN [s.self EXCEPT !.encode_prefix = self.encode_prefix]
                  ELSE s.self
        /\ db' = IF ufail = "none" THEN s.self ELSE db
        /\ op' = [EncFrame(outer, record_data, passphrase, s.key, ret, db)
                     EXCEPT !.ufail = ufail,
                            !.saves = IF ufail = "none" THEN 1 ELSE 0]
        /\ nsalt' = nsalt + 1
        /\ pc' = "store"

\* Report.encrypt_record(record_data, passphrase), first stretch: into
\* _store_for_user_decryption, through encryption_setup and its self.save().
encrypt_record_begin(record_data, passphrase, ufail) ==
    /\ pc = "idle"
    /\ nsalt < MaxSalt
    /\ ufail \in {"none", "setup", "save"}
    /\ user_path_setup(mem, "encrypt_record", record_data, passphrase, None, ufail)
    /\ UNCHANGED <<hist, mrs, defaultHasher, last, lastEnc, submitted, matchRes, obs>>

\* encrypt_record, second stretch: unless encryption_setup raised, the user
\* ciphertext is set on the instance (line 136, which may raise: ufail);
\* then, as encrypt_record_flow has it, _store_for_callisto_decryption runs
\* (line 65), its escrow path raising at `fail` or nowhere.  An exception
\* leaving a method ends encrypt_record before its self.save(): the request
\* fails, the next one loads the row anew.
encrypt_record_store(ufail, fail) ==
    /\ pc = "store"
    /\ ufail \in {"none", "encrypt"}
    /\ op.ufail # "none" => ufail = "none"
    /\ LET uf   == IF op.ufail # "none" THEN op.ufail ELSE ufail
           flow == encrypt_record_flow(uf)
           u    == IF uf = "none"
                   THEN store_for_user_decryption(mem, op.data, op.key)
                   ELSE mem
           e    == IF flow.escrow
                   THEN store_for_callisto_decryption(u, hist, op.data, fail)
                   ELSE [self |-> u, hist |-> hist, exc |-> flow.exc]
           exc  == IF flow.exc # "none" THEN flow.exc ELSE e.exc
       IN  /\ ~flow.escrow => fail = "none"
           /\ hist' = e.hist
           /\ IF exc = "none"
              THEN /\ mem' = e.self
                   /\ pc' = "save"
                   /\ op' = [op EXCEPT !.fail = fail, !.ufail = uf, !.escrow = TRUE]
                   /\ last' = last
                   /\ lastEnc' = lastEnc
              ELSE /\ mem' = db
                   /\ pc' = "idle"
                   /\ op' = None
                   /\ last' = Outcome(op, Raise(exc), fail, uf, flow.escrow, op.saves)
                   /\ lastEnc' = None
    /\ UNCHANGED <<db, mrs, defaultHasher, nsalt, submitted, matchRes, obs>>

\* encrypt_record, last stretch: self.save() (line 66) and the return, to the
\* caller or into _return_or_transform, which returns new_data.
encrypt_record_save ==
    /\ pc = "save"
    /\ db' = mem
    /\ pc' = "idle"
    /\ op' = None
    /\ last' = Outcome(op, Return(op.ret), op.fail, op.ufail, op.escrow, op.saves + 1)
    /\ lastEnc' = [data |-> op.data, pass |-> op.pass, fail |-> op.fail]
    /\ UNCHANGED <<mem, hist, mrs, defaultHasher, nsalt, submitted, matchRes, obs>>

\* Report.decrypt_record(passphrase): to its return or its raise, or, for a
\* legacy list, into the encrypt_record of the migration (whose first
\* stretch, encryption_setup with its save, runs here).
decrypt_record_step(passphrase, ufail) ==
    /\ pc = "idle"
    /\ ufail \in {"none", "setup", "save"}
    /\ LET r == decrypt_record(mem, passphrase)
       IN  /\ (r.setup \/ r.migrate) => nsalt < MaxSalt
           /\ IF r.migrate
              THEN /\ user_path_setup(r.self, "decrypt_record", r.out.val,
                                      passphrase, r.out.val, ufail)
                   /\ last' = last
              ELSE /\ ufail = "none"
                   /\ nsalt' = IF r.setup THEN nsalt + 1 ELSE nsalt
                   /\ mem' = r.self
                   /\ db' = IF r.setup THEN r.self ELSE db
                   /\ pc' = "idle"
                   /\ op' = None
                   /\ last' = [name |-> "decrypt_record", pass |-> passphrase,
                               data |-> None, out |-> r.out, fail |-> "none",
                               ufail |-> "none", escrow |-> FALSE,
                               migrated |-> FALSE, enc |-> lastEnc, before |-> db,
                               saves |-> IF r.setup THEN 1 ELSE 0]
    /\ UNCHANGED <<hist, mrs, defaultHasher, lastEnc, submitted, matchRes, obs>>

\* Report.withdraw_from_matching, line 90: the submissions are deleted.
withdraw_delete ==
    /\ pc = "idle"
    /\ mrs' = withdraw_delete_rows(mrs)
    /\ submitted' = [m \in MatchIds |-> IF mrs'[m] = None THEN None ELSE submitted[m]]
    /\ pc' = "withdraw_save"
    /\ op' = [name |-> "withdraw_from_matching",
              pre |-> [subs |-> matchreport_set(mrs), flag |-> db.match_found]]
    /\ matchRes' = None
    /\ obs' = None
    /\ UNCHANGED <<db, mem, hist, defaultHasher, nsalt, last, lastEnc>>

\* Report.withdraw_from_matching, lines 91-92: the flag is cleared and saved.
withdraw_save ==
    /\ pc = "withdraw_save"
    /\ mem' = withdraw_clear_flag(mem)
    /\ db' = mem'
    /\ pc' = "idle"
    /\ op' = None
    /\ last' = [name |-> "withdraw_from_matching", pre |-> op.pre, out |-> Return(None)]
    /\ obs' = None
    /\ UNCHANGED <<hist, mrs, defaultHasher, nsalt, lastEnc, submitted, matchRes>>

\* MatchReport.encrypt_match_report(report_text, identifier) on row m: a new
\* submission of Report r, which gets the next free id, or the row m already
\* holds; ends in self.save().
encrypt_match_report_step(m, r, report_text, identifier) ==
    /\ pc = "idle"
    /\ nsalt < MaxSalt
    /\ mrs[m] = None => /\ \A n \in MatchIds : n < m => mrs[n] # None
    /\ mrs[m] # None => r = mrs[m].report
    /\ LET self == IF mrs[m] = None THEN NewMatchReport(r) ELSE mrs[m]
       IN  mrs' = [mrs EXCEPT ![m] = encrypt_match_report(self, report_text, identifier)]
    /\ nsalt' = nsalt + 1
    /\ submitted' = [submitted EXCEPT
                        ![m] = [identifier |-> identifier, text |-> report_text,
                                intact |-> TRUE]]
    /\ last' = [name |-> "encrypt_match_report", m |-> m,
                had_salt |-> mrs[m] # None /\ Truthy(mrs[m].salt),
                out |-> Return(None)]
    /\ matchRes' = None
    /\ obs' = None
    /\ UNCHANGED <<db, mem, hist, defaultHasher, pc, op, lastEnc>>

\* MatchReport.get_match(identifier) on the stored row m, by any request,
\* also while the thread is in the middle of an operation.
get_match_step(m, identifier) ==
    /\ mrs[m] # None
    /\ matchRes' = [m |-> m, identifier |-> identifier,
                    out |-> get_match(mrs[m], identifier)]
    /\ UNCHANGED <<db, mem, hist, mrs, defaultHasher, nsalt, pc, op, last, lastEnc,
                   submitted, obs>>

\* The stored bytes of submission m get corrupted (storage fault).
corrupt_submission(m) ==
    /\ pc = "idle"
    /\ mrs[m] # None
    /\ mrs[m].encrypted # Garbage
    /\ mrs' = [mrs EXCEPT ![m].encrypted = Garbage]
    /\ submitted' = [submitted EXCEPT ![m].intact = FALSE]
    /\ matchRes' = None
    /\ UNCHANGED <<db, mem, hist, defaultHasher, nsalt, pc, op, last, lastEnc, obs>>

\* A concurrent request reads the Report's submissions and, through
\* MatchReport.match_found, its flag, from the database.
concurrent_read ==
    /\ obs' = [subs |-> matchreport_set(mrs), flag |-> match_found(db),
               during |-> pc = "withdraw_save",
               pre |-> IF pc = "withdraw_save" THEN op.pre ELSE None]
    /\ obs' # obs
    /\ UNCHANGED <<db, mem, hist, mrs, defaultHasher, nsalt, pc, op, last, lastEnc,
                   submitted, matchRes>>

\* The matching API finds a match for a submission of this Report and sets
\* the Report's match_found flag.
set_match_found ==
    /\ pc = "idle"
    /\ matchreport_set(mrs) # {}
    /\ ~db.match_found
    /\ db' = [db EXCEPT !.match_found = TRUE]
    /\ mem' = db'
    /\ obs' = None
    /\ UNCHANGED <<hist, mrs, defaultHasher, nsalt, pc, op, last, lastEnc,
                   submitted, matchRes>>

\* The deployment upgrades its default hasher (settings change).
upgrade_default_hasher ==
    /\ pc = "idle"
    /\ defaultHasher < Len(Hashers)
    /\ defaultHasher' = defaultHasher + 1
    /\ UNCHANGED <<db, mem, hist, mrs, nsalt, pc, op, last, lastEnc, submitted,
                   matchRes, obs>>

\* The calls on the Report itself: encrypt_record, decrypt_record and
\* withdraw_from_matching (of a Report without submissions).
NextRecord ==
    \/ \E d \in RecordData, k \in Passphrases, u \in UserFailures :
            encrypt_record_begin(d, k, u)
    \/ \E u \in UserFailures, f \in EscrowFailures : encrypt_record_store(u, f)
    \/ encrypt_record_save
    \/ \E k \in Passphrases, u \in UserFailures : decrypt_record_step(k, u)
    \/ withdraw_delete
    \/ withdraw_save
    \/ upgrade_default_hasher

\* The calls on matching: submissions, trial decryption, withdrawal.
NextMatch ==
    \/ \E m \in MatchIds, r \in Reports, x \in MatchTexts, i \in Identifiers :
            encrypt_match_report_step(m, r, x, i)
    \/ \E m \in MatchIds, i \in Identifiers : get_match_step(m, i)
    \/ \E m \in MatchIds : corrupt_submission(m)
    \/ withdraw_delete
    \/ withdraw_save
    \/ concurrent_read
    \/ set_match_found
    \/ upgrade_default_hasher

Next == NextRecord \/ NextMatch

\* A client that works on the Report's encryption.
SpecRecord == Init /\ [][NextRecord]_vars
\* The identifier of the submission written by an earlier release.
LegacyIdentifier == "i1"

\* A MatchReport of this Report written by an earlier release: standalone
\* salt, no encode_prefix, the peppered ciphertext under the legacy key.
LegacyMatchReport(report_text, identifier) ==
    [report |-> ThisReport, encode_prefix |-> None, salt |-> LegacySalt,
     encrypted |-> pepper(encrypt_text(
                       make_key(None, identifier, LegacySalt).key, report_text))]

\* A client that works on matching, on a Report never encrypted, whose
\* MatchReport table is empty or holds one submission of an earlier release.
InitMatch ==
    /\ db = FreshReport
    /\ mem = db
    /\ hist = <<>>
    /\ \E x \in MatchTexts, legacy \in BOOLEAN :
           /\ mrs = [m \in MatchIds |->
                        IF legacy /\ m = 1
                        THEN LegacyMatchReport(x, LegacyIdentifier) ELSE None]
           /\ submitted = [m \in MatchIds |->
                              IF legacy /\ m = 1
                              THEN [identifier |-> LegacyIdentifier, text |-> x,
                                    intact |-> TRUE]
                              ELSE None]
    /\ defaultHasher = 1
    /\ nsalt = 0
    /\ pc = "idle"
    /\ op = None
    /\ last = None
    /\ lastEnc = None
    /\ matchRes = None
    /\ obs = None
SpecMatch == InitMatch /\ [][NextMatch]_vars
\* A client that reads Reports (decrypt_record, with the migration it may
\* run) while submissions are made and matches are found.
NextRead ==
    \/ \E k \in Passphrases, u \in UserFailures : decrypt_record_step(k, u)
    \/ \E u \in UserFailures, f \in EscrowFailures : encrypt_record_store(u, f)
    \/ encrypt_record_save
    \/ \E m \in MatchIds, r \in Reports, x \in MatchTexts, i \in Identifiers :
            encrypt_match_report_step(m, r, x, i)
    \/ set_match_found
    \/ upgrade_default_hasher
SpecRead == Init /\ [][NextRead]_vars
\* Both at once.
Spec == Init /\ [][Next]_vars

\* ================================================================= claims
\* The thread has finished a call of this name on the Report.
Finished(name) == pc = "idle" /\ last # None /\ last.name = name

\* decrypt_record has finished on a record whose last finished
\* encrypt_record was under the same passphrase / under another one.
DecryptedAfterEncrypt ==
    Finished("decrypt_record") /\ last.enc # None /\ last.pass = last.enc.pass
DecryptedWithOtherPassphrase ==
    Finished("decrypt_record") /\ last.enc # None /\ last.pass # last.enc.pass

\* C1: round trip: a decrypt_record(K) that follows encrypt_record(P, K) on
\* the same record returns exactly P.
C1_RoundTrip ==
    DecryptedAfterEncrypt => last.out = Return(last.enc.data)

C1_Witness ==
    /\ DecryptedAfterEncrypt
    /\ last.out = Return(Dict("A"))
    /\ last.before.encode_prefix.alg # get_hasher.alg

\* C2: wrong passphrase: a decrypt_record(K2) that follows encrypt_record(P, K1),
\* K1 # K2, raises the cipher's CryptoError to the caller and returns nothing.
C2_WrongPassphrase ==
    DecryptedWithOtherPassphrase =>
        /\ last.out = Raise("CryptoError")
        /\ last.out.kind # "return"

C2_Witness ==
    /\ DecryptedWithOtherPassphrase
    /\ last.out = Raise("CryptoError")

\* C3: match signal: get_match(I2) on a stored, uncorrupted submission that
\* encrypt_match_report(text, I1) wrote returns text when I1 = I2 and None
\* when I1 # I2; the stored bytes are the peppered box under the key of I1
\* and the row's own encode_prefix.
C3_MatchSignal ==
    /\ matchRes # None /\ submitted[matchRes.m].intact =>
           matchRes.out = IF matchRes.identifier = submitted[matchRes.m].identifier
                          THEN Return(submitted[matchRes.m].text)
                          ELSE Return(None)
    /\ \A m \in MatchIds :
           (mrs[m] # None /\ submitted[m].intact) =>
               mrs[m].encrypted =
                   pepper(encrypt_text(
                       make_key(mrs[m].encode_prefix, submitted[m].identifier,
                                mrs[m].salt).key,
                       submitted[m].text))

C3_Witness ==
    /\ matchRes # None
    /\ submitted[matchRes.m].intact
    /\ matchRes.identifier = submitted[matchRes.m].identifier
    /\ matchRes.out = Return(submitted[matchRes.m].text)
    /\ Truthy(mrs[matchRes.m].encode_prefix)
    /\ mrs[matchRes.m].encode_prefix.alg # get_hasher.alg

\* The pepper removal or the decryption of row fails for this identifier.
MatchFails(row, identifier) ==
    \/ unpepper(row.encrypted).exc # "none"
    \/ decrypt_text(make_key(row.encode_prefix, identifier, row.salt).key,
                    unpepper(row.encrypted).val).exc # "none"

\* C4: get_match never raises on a failed pepper removal or a failed
\* decryption: it returns, and returns None when either failed.
C4_NoMatchIsNotAnError ==
    matchRes # None =>
        /\ matchRes.out.kind = "return"
        /\ MatchFails(mrs[matchRes.m], matchRes.identifier) =>
               matchRes.out = Return(None)

C4_Witness ==
    /\ matchRes # None
    /\ mrs[matchRes.m].encrypted = Garbage
    /\ unpepper(mrs[matchRes.m].encrypted).exc = "CryptoError"
    /\ matchRes.out = Return(None)

\* C5: escrow is best effort: an encrypt_record(P, K) whose escrow path raised
\* (filter, asymmetric encryption or snapshot creation) still returns, with
\* the user ciphertext of P and its encode_prefix stored and saved, and a
\* following decrypt_record(K) returns P.
C5_EscrowBestEffort ==
    /\ (pc = "idle" /\ last # None
          /\ last.name \in {"encrypt_record", "decrypt_record"}
          /\ last.fail # "none") =>
           /\ last.out.kind = "return"
           /\ db = mem
           /\ Truthy(db.encode_prefix)
           /\ db.encrypted =
                  encrypt_text(make_key(db.encode_prefix, last.pass, db.salt).key,
                               json_dumps(last.data))
    /\ (DecryptedAfterEncrypt /\ last.enc.fail # "none") =>
           last.out = Return(last.enc.data)

C5_Witness ==
    /\ DecryptedAfterEncrypt
    /\ last.enc.fail = "gpg"
    /\ last.out = Return(last.enc.data)
    /\ db.encrypted_eval = EmptyBytes

\* C6: after withdraw_from_matching has finished, no submission of the Report
\* exists (none of those that existed before can be loaded for a get_match)
\* and the Report's match_found reads False.
C6_Withdrawn ==
    Finished("withdraw_from_matching") =>
        /\ matchreport_set(mrs) = {}
        /\ \A m \in last.pre.subs : mrs[m] = None
        /\ ~match_found(db)
        /\ last.out = Return(None)

C6_Witness ==
    /\ Finished("withdraw_from_matching")
    /\ Cardinality(last.pre.subs) = MaxMatch
    /\ last.pre.flag
    /\ matchreport_set(mrs) = {}
    /\ ~match_found(db)

\* C7: withdrawal is atomic: what a concurrent reader reads while
\* withdraw_from_matching runs is the state before it (all submissions, the
\* flag as it was) or the state after it (no submission, flag False).
C7_WithdrawAtomic ==
    (obs # None /\ obs.during) =>
        \/ [subs |-> obs.subs, flag |-> obs.flag] = obs.pre
        \/ (obs.subs = {} /\ ~obs.flag)

\* The plaintext of the Report row is the JSON of a legacy list.
HoldsLegacyList(row) ==
    /\ row.encrypted.t = "secretbox"
    /\ row.encrypted.text.json
    /\ row.encrypted.text.body.t = "list"

\* row holds the user ciphertext of data under passphrase and its own
\* encode_prefix, and no legacy salt.
HoldsUserCiphertext(row, data, passphrase) ==
    /\ Truthy(row.encode_prefix)
    /\ row.salt = None
    /\ row.encrypted =
           encrypt_text(make_key(row.encode_prefix, passphrase, None).key,
                        json_dumps(data))

\* C8: migrate on read: decrypt_record(K) on a record whose plaintext is a
\* legacy list returns the transformed mapping and has re-encrypted and saved
\* it under K; the next decrypt_record(K) returns the same mapping and neither
\* re-encrypts nor saves.
C8_MigrateOnRead ==
    /\ (Finished("decrypt_record") /\ last.out.kind = "return"
          /\ HoldsLegacyList(last.before)) =>
           /\ last.migrated
           /\ last.out =
                  Return(transform_if_old_format(last.before.encrypted.text.body))
           /\ last.out.val.t = "dict"
           /\ HoldsUserCiphertext(db, last.out.val, last.pass)
           /\ db = mem
    /\ (DecryptedAfterEncrypt /\ last.enc.data.from_list) =>
           /\ ~last.migrated
           /\ last.out = Return(last.enc.data)
           /\ last.saves = 0
           /\ db = last.before
           /\ db = mem

C8_Witness ==
    /\ DecryptedAfterEncrypt
    /\ last.enc.data.from_list
    /\ last.out = Return(transform_if_old_format(List("L")))
    /\ last.saves = 0

\* encrypt_record has finished on a record that an earlier encrypt_record
\* had encrypted under another passphrase.
Rotated ==
    /\ Finished("encrypt_record")
    /\ last.out.kind = "return"
    /\ last.enc # None
    /\ last.enc.pass # last.pass

\* C9: passphrase rotation: after encrypt_record(P1, K1) and then
\* encrypt_record(P2, K2), K1 # K2, encode_prefix and user ciphertext are both
\* new (new salt, new key, nothing of the earlier pair), decrypt_record(K2)
\* yields P2 and decrypt_record(K1) raises.
C9_Rotation ==
    Rotated =>
        /\ HoldsUserCiphertext(db, last.data, last.pass)
        /\ db.encode_prefix # last.before.encode_prefix
        /\ db.encode_prefix.salt # last.before.encode_prefix.salt
        /\ db.encrypted # last.before.encrypted
        /\ db.encrypted.key # last.before.encrypted.key
        /\ decrypt_record(db, last.pass).out = Return(last.data)
        /\ decrypt_record(db, last.enc.pass).out = Raise("CryptoError")

C9_Witness ==
    /\ Rotated
    /\ last.enc.data # last.data
    /\ last.before.encrypted.text = json_dumps(last.enc.data)

\* The hasher written in an encode_prefix.
HasherOf(prefix) == [alg |-> prefix.alg, iter |-> prefix.iter]

\* C10: parameter versioning: decrypt_record derives the key from the
\* record's stored encode_prefix (or legacy salt), so a decrypt_record(K) after
\* the default hasher changed still returns P and leaves the stored
\* parameters as they were.
C10_StoredParameters ==
    /\ (DecryptedAfterEncrypt /\ HasherOf(last.before.encode_prefix) # get_hasher) =>
           /\ last.out = Return(last.enc.data)
           /\ db.encode_prefix = last.before.encode_prefix
           /\ db.encrypted.key =
                  make_key(db.encode_prefix, last.pass, db.salt).key
    /\ (Finished("decrypt_record") /\ last.enc = None /\ last.ufail = "none"
          /\ last.before.salt = LegacySalt /\ last.pass = LegacyPassphrase) =>
           last.out.kind = "return"

C10_Witness ==
    /\ DecryptedAfterEncrypt
    /\ HasherOf(last.before.encode_prefix) = Hashers[1]
    /\ get_hasher = Hashers[2]
    /\ last.out = Return(last.enc.data)

\* The escrow ciphertext the escrow path produces for record_data.
EscrowOf(record_data) == gpg_encrypt_data(filter_record_data(record_data))

\* C11: the escrow history is append-only: over encrypt_record, decrypt_record
\* (with its migration) and withdraw_from_matching, every step leaves the
\* RecordHistorical rows as they were or extends them; an escrow path that
\* ran through appends exactly one row, holding the escrow ciphertext just
\* produced; an escrow path that raised appends none.
C11_AppendOnly ==
    [][/\ Len(hist') >= Len(hist)
       /\ SubSeq(hist', 1, Len(hist)) = hist
       /\ IF pc = "store" /\ pc' = "save" /\ op'.fail = "none"
          THEN /\ hist' = Append(hist, EscrowOf(op.data))
               /\ hist'[Len(hist')] = mem'.encrypted_eval
          ELSE hist' = hist]_vars

C11_Witness ==
    /\ Finished("encrypt_record")
    /\ last.fail = "create"
    /\ last.enc # None
    /\ last.enc.fail = "none"
    /\ last.enc.data # last.data
    /\ hist = <<EscrowOf(last.enc.data)>>

\* The thread has finished a call that ran encrypt_record: encrypt_record
\* itself, or the decrypt_record of a migration.
FinishedEncrypt ==
    /\ pc = "idle" /\ last # None
    /\ \/ last.name = "encrypt_record"
       \/ last.name = "decrypt_record" /\ last.migrated

\* C12, as stated: in encrypt_record both sub-steps execute even if one
\* fails: an escrow path that raised does not keep the user ciphertext from
\* being stored, and a user path that raised (key setup, its save, or the
\* encryption) does not keep the escrow path from being attempted.
C12_BothSubStepsExecute ==
    FinishedEncrypt =>
        /\ last.fail # "none" =>
               db.encrypted = encrypt_text(make_key(db.encode_prefix, last.pass,
                                                    db.salt).key,
                                           json_dumps(last.data))
        /\ last.ufail # "none" => last.escrow

\* C12, amended: an escrow path that raised does not keep the user ciphertext
\* from being stored and saved; a user path that raised ends encrypt_record
\* with that exception: the escrow path is not attempted, the escrow
\* ciphertext and the user ciphertext stay as they were.
C12_UserPathFailureEndsCall ==
    FinishedEncrypt =>
        /\ last.fail # "none" =>
               /\ last.out.kind = "return"
               /\ db.encrypted = encrypt_text(make_key(db.encode_prefix, last.pass,
                                                       db.salt).key,
                                              json_dumps(last.data))
        /\ last.ufail # "none" =>
               /\ ~last.escrow
               /\ last.out = Raise("Exception")
               /\ db.encrypted_eval = last.before.encrypted_eval
               /\ db.encrypted = last.before.encrypted

C12_Witness ==
    /\ Finished("encrypt_record")
    /\ last.ufail = "encrypt"
    /\ ~last.escrow
    /\ last.out = Raise("Exception")
    /\ Truthy(last.before.encrypted_eval)

\* C13: after every encrypt_record that returned, the row holds a non-empty
\* user ciphertext together with the encode_prefix it was encrypted under,
\* with or without an escrow ciphertext; a row without escrow ciphertext
\* still decrypts for its author.
C13_UserCiphertextPresent ==
    (FinishedEncrypt /\ last.out.kind = "return") =>
        /\ Truthy(db.encrypted)
        /\ Truthy(db.encode_prefix)
        /\ db.encrypted.t = "secretbox"
        /\ db.encrypted.key = make_key(db.encode_prefix, last.pass, db.salt).key
        /\ ~Truthy(db.encrypted_eval) =>
               decrypt_record(db, last.pass).out = Return(last.data)

C13_Witness ==
    /\ Finished("encrypt_record")
    /\ last.out.kind = "return"
    /\ last.fail = "filter"
    /\ ~Truthy(db.encrypted_eval)
    /\ Truthy(db.encrypted)
    /\ decrypt_record(db, last.pass).out = Return(last.data)

\* The stored parameters of row are the ones its user ciphertext was
\* encrypted under: some passphrase yields, with them, the key of the box.
ParametersFitCiphertext(row) ==
    /\ row.encrypted.t = "secretbox"
    /\ \E k \in Passphrases :
           row.encrypted.key = make_key(row.encode_prefix, k, row.salt).key

\* C14: no half-applied record write: in every persisted state of the Report
\* during or after encrypt_record (also the one left by a call that raised
\* or was interrupted, and the one a concurrent decrypt_record loads), the
\* persisted encode_prefix is the one the persisted user ciphertext was
\* encrypted under.
C14_NoHalfAppliedWrite ==
    Truthy(db.encrypted) => ParametersFitCiphertext(db)

\* C15: when the escrow path fails in encrypt_record(P2, K) on a Report that
\* holds the escrow ciphertext of an earlier encrypt_record(P1, K), the row
\* is saved without escrow data of this call: it never holds the escrow
\* ciphertext of P1 beside the user ciphertext of P2.
C15_NoStaleEscrow ==
    (/\ Finished("encrypt_record") /\ last.out.kind = "return"
     /\ last.fail # "none"
     /\ last.enc # None /\ last.enc.fail = "none"
     /\ last.enc.pass = last.pass /\ last.enc.data # last.data) =>
        ~(/\ db.encrypted_eval = EscrowOf(last.enc.data)
          /\ db.encrypted.text = json_dumps(last.data))

\* C16: payload shape dispatch of decrypt_record: a plaintext that is the
\* JSON of a mapping is returned as that mapping, the JSON of a list is
\* returned transformed, and every other plaintext (free text that is no
\* JSON, or JSON of a value that is neither mapping nor list) is returned as
\* the raw plaintext string.
C16_ShapeDispatch ==
    (Finished("decrypt_record") /\ last.out.kind = "return") =>
        LET text == last.before.encrypted.text
        IN  CASE text.json /\ text.body.t = "dict" -> last.out = Return(text.body)
              [] text.json /\ text.body.t = "list" ->
                     last.out = Return(transform_if_old_format(text.body))
              [] OTHER -> last.out = Return(text)

\* C17: an escrow ciphertext stored on the Report by encrypt_record is the
\* one its most recent RecordHistorical row holds: after a call, the row's
\* encrypted_eval is never set without its snapshot, and the most recent
\* snapshot is never one of a ciphertext the row does not store.
C17_EscrowMatchesSnapshot ==
    pc = "idle" =>
        /\ Truthy(db.encrypted_eval) =>
               Len(hist) > 0 /\ hist[Len(hist)] = db.encrypted_eval
        /\ Len(hist) > 0 => hist[Len(hist)] = db.encrypted_eval

\* This step is a decrypt_record that ran to its return or raise without
\* entering a migration, on a Report with an encode_prefix or a legacy salt.
DecryptOfInitialised ==
    /\ pc = "idle" /\ pc' = "idle"
    /\ last' # last /\ last'.name = "decrypt_record"
    /\ Truthy(db.encode_prefix) \/ Truthy(db.salt)

\* C18: decrypt_record is read-only on an initialised Report unless it
\* migrates: whether it returns or raises CryptoError, it leaves the row
\* (ciphertexts, encode_prefix, salt, match_found), the instance, the
\* RecordHistorical rows and the MatchReport table as they were and saves
\* nothing.
C18_DecryptReadOnly ==
    [][DecryptOfInitialised =>
          /\ UNCHANGED <<db, mem, hist, mrs>>
          /\ last'.saves = 0
          /\ last'.before = db]_vars

C18_Witness ==
    /\ Finished("decrypt_record")
    /\ ~last.migrated
    /\ last.saves = 0
    /\ last.out.kind = "return"
    /\ Truthy(last.before.encode_prefix)
    /\ db = last.before
    /\ db.match_found
    /\ matchreport_set(mrs) # {}
    /\ Len(hist) > 0

\* This step is an encrypt_match_report (the only call on matching that
\* draws a salt) / a get_match with its outcome.
SubmitStep == nsalt' # nsalt
TryStep    == matchRes' # matchRes /\ matchRes' # None

\* C19: encrypt_match_report and get_match touch no other state:
\* encrypt_match_report writes its own row only (fresh salt, encode_prefix of
\* the default hasher, peppered ciphertext, legacy salt cleared) and leaves
\* every other submission and the Report's match_found as they were;
\* get_match changes nothing that is persisted, match or no match.
C19_MatchFrame ==
    [][/\ SubmitStep =>
           /\ \A n \in MatchIds : n # last'.m => mrs'[n] = mrs[n]
           /\ mrs'[last'.m].encode_prefix.salt = Salt(nsalt')
           /\ HasherOf(mrs'[last'.m].encode_prefix) = get_hasher
           /\ mrs'[last'.m].encrypted.t = "peppered"
           /\ mrs'[last'.m].salt = None
           /\ UNCHANGED <<db, mem, hist>>
       /\ TryStep => UNCHANGED <<db, mem, hist, mrs, submitted>>]_vars

C19_Witness ==
    /\ Finished("encrypt_match_report")
    /\ Cardinality(matchreport_set(mrs)) = MaxMatch
    /\ last.had_salt
    /\ mrs[last.m].salt = None
    /\ db.match_found
    /\ matchRes # None
    /\ matchRes.m # last.m
    /\ matchRes.out = Return(submitted[matchRes.m].text)

====
